---- MODULE Spec2Model ----
(***************************************************************************)
(* ChronoLog (src/chronolog.go): a size-rotated, append-only log writer.    *)
(* The Logger's state (handle, byte counter, mutex, quit channel), the     *)
(* file system it works on (names, inodes, modification times), the        *)
(* rotation checker goroutine, the callers' write and Close calls and the  *)
(* detached compression and retention tasks, one action per step of each   *)
(* goroutine between two points at which another goroutine can act.        *)
(* Time is in whole seconds, the resolution of the archive names.          *)
(***************************************************************************)
EXTENDS Integers, Sequences, FiniteSets, TLC

VARIABLES
    config,       \* Logger.config: the effective Config
    file,         \* Logger.file: [ino, open], the *os.File
    currentSize,  \* Logger.currentSize
    mu,           \* Logger.mu: its holder, or NoOne
    quitChan,     \* Logger.quitChan: "open" or "closed"
    pc,           \* where each goroutine stands
    fs,           \* the directory: file name -> inode number
    inodes,       \* inode number -> [data, mtime]
    now,          \* the wall clock, in seconds
    stderr,       \* the kinds of message written to os.Stderr so far
    comp,         \* the compression goroutines spawned by rotate
    sweep,        \* the cleanupOldLogs goroutines spawned by rotate
    faults,       \* I/O failures the environment has produced so far
    nextId,       \* number of write calls that took the lock so far
    leaked,       \* files opened by openFile and never stored in Logger.file
    panicked,     \* the process died of an unrecovered panic
    atOpen,       \* history: the data the file held when Logger.file was opened
    sinceOpen,    \* history: the chunks appended through Logger.file since then
    rotated,      \* history: the rotations that renamed the file, in order
    lastTick      \* history: the write calls made when the checker last took a tick

vars == <<config, file, currentSize, mu, quitChan, pc, fs, inodes, now, stderr,
          comp, sweep, faults, nextId, leaked, panicked, atOpen, sinceOpen,
          rotated, lastTick>>

-----------------------------------------------------------------------------
(* Bounds of the model *)

MaxWrites == 3       \* write calls, where two callers or all tasks run
MaxRotateWrites == 5 \* write calls, where one caller, rotate and compression run
MaxTime == 2         \* the last second the clock reaches
MaxFaults == 1       \* I/O operations the environment fails
MaxOnceWrites == 1   \* write calls, where Close and all tasks run
MaxRotations == 2    \* rotations, where MaxSize may be negative

-----------------------------------------------------------------------------
(* LogLevel and its String method *)

LevelDebug == 0
LevelInfo == 1
LevelWarning == 2
LevelError == 3
LevelFatal == 4

LevelString(l) ==
    CASE l = LevelDebug -> "DEBUG"
      [] l = LevelInfo -> "INFO"
      [] l = LevelWarning -> "WARNING"
      [] l = LevelError -> "ERROR"
      [] l = LevelFatal -> "FATAL"
      [] OTHER -> "UNKNOWN"

-----------------------------------------------------------------------------
(* Config and New *)

RFC3339 == "2006-01-02T15:04:05Z07:00"

DefaultMaxSize == 50 * 1024 * 1024
DefaultMaxAge == 7 * 24 * 60 * 60
DefaultRotationCheckInterval == 60

FilePath == <<"log">>

\* The normalisation of New: a zero field gets its default.
Normalize(c) ==
    [c EXCEPT
       !.MaxSize = IF c.MaxSize = 0 THEN DefaultMaxSize ELSE c.MaxSize,
       !.MaxAge = IF c.MaxAge = 0 THEN DefaultMaxAge ELSE c.MaxAge,
       !.TimestampFormat = IF c.TimestampFormat = "" THEN RFC3339
                           ELSE c.TimestampFormat,
       !.RotationCheckInterval =
           IF c.RotationCheckInterval = 0 THEN DefaultRotationCheckInterval
           ELSE c.RotationCheckInterval]

-----------------------------------------------------------------------------
(* Files: a file's data is a sequence of chunks <<id, n>>: n bytes of the   *)
(* line written by write call id (id 0: bytes that were in the file before *)
(* the Logger was constructed).                                            *)

RECURSIVE Size(_)
Size(data) == IF data = <<>> THEN 0 ELSE data[1][2] + Size(Tail(data))

Exists(name) == name \in DOMAIN fs

\* A rename that leaves the old name in place (a hard link), not os.Rename.
RenamedKeepsOld(old, new) ==
    [n \in DOMAIN fs \cup {new} |-> IF n = new THEN fs[old] ELSE fs[n]]

\* os.Rename: the new name takes the old name's inode, replacing what it named.
Renamed(old, new) ==
    [n \in (DOMAIN fs \ {old}) \cup {new} |-> IF n = new THEN fs[old] ELSE fs[n]]

\* os.Remove
Removed(name) == [n \in DOMAIN fs \ {name} |-> fs[n]]

NewIno == Len(inodes) + 1

\* time.Time.Format: the instant t rendered in a layout
FormatTime(layout, t) ==
    IF layout = RFC3339 THEN "2006-01-02T15:04:0" \o ToString(t) \o "Z"
    ELSE IF layout = "15:04:05" THEN "15:04:0" \o ToString(t)
    ELSE layout

\* rotate's backupName and the name compressFile is given as dst
BackupName(t) == Append(FilePath, t)
GzName(backupName) == Append(backupName, "gz")

\* The names rotate gives to archives: FilePath + "." + a timestamp
IsBackup(name) == Len(name) = 2 /\ name[1] = FilePath[1]

\* filepath.Glob(FilePath + ".*.gz"): the matching names, sorted
IsGz(name) == Len(name) = 3 /\ name[1] = FilePath[1] /\ name[3] = "gz"
RECURSIVE SortedNames(_)
SortedNames(S) ==
    IF S = {} THEN <<>>
    ELSE LET first == CHOOSE n \in S : \A m \in S : n[2] <= m[2]
         IN  <<first>> \o SortedNames(S \ {first})
Glob == SortedNames({n \in DOMAIN fs : IsGz(n)})

-----------------------------------------------------------------------------
(* The line write builds: json.Marshal(entry) + "\n", or the Sprintf form *)

JSONLine(ts, level, msg) ==
    "{\"timestamp\":\"" \o ts \o "\",\"level\":\"" \o LevelString(level)
        \o "\",\"message\":\"" \o msg \o "\"}" \o "\n"

PlainLine(ts, level, msg) ==
    ts \o " - [" \o LevelString(level) \o "]: " \o msg \o "\n"

LogLine(level, msg) ==
    IF config.JSONFormat THEN JSONLine(FormatTime(RFC3339, now), level, msg)
    ELSE PlainLine(FormatTime(RFC3339, now), level, msg)

-----------------------------------------------------------------------------
(* Goroutines *)

Callers == {"c1", "c2"}
Checker == "checker"
NoOne == "none"

LevelInputs == {LevelInfo}
MessageInputs == {"m"}

ConfigInputs ==
    { [MaxSize |-> 100, MaxAge |-> 1, CompressOldLogs |-> TRUE,
       JSONFormat |-> TRUE, TimestampFormat |-> "",
       RotationCheckInterval |-> 0],
      [MaxSize |-> 100, MaxAge |-> 1, CompressOldLogs |-> FALSE,
       JSONFormat |-> FALSE, TimestampFormat |-> "15:04:05",
       RotationCheckInterval |-> 5],
      [MaxSize |-> 0, MaxAge |-> 0, CompressOldLogs |-> FALSE,
       JSONFormat |-> FALSE, TimestampFormat |-> "",
       RotationCheckInterval |-> 0] }

\* The configurations of the specifications in which the detached tasks run.
TaskConfigInputs ==
    { [MaxSize |-> 100, MaxAge |-> 1, CompressOldLogs |-> TRUE,
       JSONFormat |-> FALSE, TimestampFormat |-> "",
       RotationCheckInterval |-> 0],
      [MaxSize |-> 100, MaxAge |-> 1, CompressOldLogs |-> FALSE,
       JSONFormat |-> FALSE, TimestampFormat |-> "15:04:05",
       RotationCheckInterval |-> 5] }

\* Configurations with unset and with negative fields.
AnyConfigInputs ==
    { [MaxSize |-> size, MaxAge |-> age, CompressOldLogs |-> FALSE,
       JSONFormat |-> FALSE, TimestampFormat |-> "",
       RotationCheckInterval |-> interval] :
         size \in {-1, 0, 100}, age \in {-1, 0, 1}, interval \in {-1, 0, 5} }

\* What the file at FilePath holds before New opens it.
PreExisting == { <<>>, << <<0, 100>> >> }

\* New: the state once it has returned a Logger (openFile succeeded and the
\* rotation checker was started). A checker whose NewTicker is going to
\* succeed stands at its select already; one whose interval is not positive
\* stands before NewTicker.
InitWith(configs) ==
    /\ \E c \in configs : config = Normalize(c)
    /\ \E pre \in PreExisting :
          /\ inodes = << [data |-> pre, mtime |-> 0] >>
          /\ currentSize = Size(pre)
          /\ atOpen = pre
    /\ fs = (FilePath :> 1)
    /\ file = [ino |-> 1, open |-> TRUE]
    /\ sinceOpen = <<>>
    /\ mu = NoOne
    /\ quitChan = "open"
    /\ pc = [p \in Callers \cup {Checker} |->
                IF p # Checker THEN "idle"
                ELSE IF config.RotationCheckInterval > 0 THEN "select"
                ELSE "start"]
    /\ now = 0
    /\ stderr = {}
    /\ comp = <<>>
    /\ sweep = <<>>
    /\ faults = 0
    /\ nextId = 0
    /\ leaked = 0
    /\ panicked = FALSE
    /\ rotated = <<>>
    /\ lastTick = -1

Init == InitWith(ConfigInputs)
InitAny == InitWith(AnyConfigInputs)
InitTasks == InitWith(TaskConfigInputs)

\* The environment may fail one more I/O operation.
MayFail == faults < MaxFaults

Alive == ~panicked

\* An error path that prints nothing.
NotReported(kind) == stderr

\* fmt.Fprintf(os.Stderr, ...): a message of this kind is on the error stream.
Reported(kind) == stderr \cup {kind}

-----------------------------------------------------------------------------
(* write (the body of Debug, Info, Warning, Error and Fatal) *)

\* A write that goes on without taking l.mu.
WriteLockNoMutex(c) ==
    /\ Alive
    /\ pc[c] = "idle"
    /\ mu' = c
    /\ nextId' = nextId + 1
    /\ pc' = [pc EXCEPT ![c] = "write"]
    /\ UNCHANGED <<config, file, currentSize, quitChan, fs, inodes, now, stderr,
                   comp, sweep, faults, leaked, panicked, atOpen, sinceOpen,
                   rotated, lastTick>>

\* l.mu.Lock() of write
WriteLock(c) ==
    /\ Alive
    /\ pc[c] = "idle"
    /\ mu = NoOne
    /\ mu' = c
    /\ nextId' = nextId + 1
    /\ pc' = [pc EXCEPT ![c] = "write"]
    /\ UNCHANGED <<config, file, currentSize, quitChan, fs, inodes, now, stderr,
                   comp, sweep, faults, leaked, panicked, atOpen, sinceOpen,
                   rotated, lastTick>>

\* fmt.Fprintf(l.file, ...): n bytes of the line reach the file.
Appended(n) ==
    IF n = 0 THEN inodes
    ELSE [inodes EXCEPT ![file.ino] =
            [data |-> Append(@.data, <<nextId, n>>), mtime |-> now]]

\* What write does to the counter once Fprintf has returned n and no error.
Counted(n) == currentSize + n

\* The byte counts at which a failing Fprintf may stop.
PartialWrites(len) == {0, len \div 2}

\* The rest of write, its deferred Unlock included: the line is built and
\* handed to Fprintf; the counter advances only when Fprintf reports no error.
WriteBody(c) ==
    /\ Alive
    /\ pc[c] = "write"
    /\ \E level \in LevelInputs, msg \in MessageInputs :
         LET len == Len(LogLine(level, msg)) IN
         \/ /\ file.open
            /\ inodes' = Appended(len)
            /\ currentSize' = Counted(len)
            /\ sinceOpen' = Append(sinceOpen, <<nextId, len>>)
            /\ UNCHANGED <<stderr, faults>>
         \/ /\ file.open
            /\ MayFail
            /\ \E n \in PartialWrites(len) :
                 /\ inodes' = Appended(n)
                 /\ sinceOpen' = IF n = 0 THEN sinceOpen
                                 ELSE Append(sinceOpen, <<nextId, n>>)
            /\ faults' = faults + 1
            /\ stderr' = Reported("write")
            /\ UNCHANGED currentSize
         \/ /\ ~file.open
            /\ stderr' = Reported("write")
            /\ UNCHANGED <<inodes, currentSize, sinceOpen, faults>>
    /\ mu' = IF mu = c THEN NoOne ELSE mu
    /\ pc' = [pc EXCEPT ![c] = "idle"]
    /\ UNCHANGED <<config, file, quitChan, fs, now, comp, sweep, nextId,
                   leaked, panicked, atOpen,
                   rotated, lastTick>>

-----------------------------------------------------------------------------
(* rotationChecker and rotate *)

\* time.NewTicker(l.config.RotationCheckInterval): it panics when the
\* interval is not positive, and the panic of a goroutine ends the process.
CheckerStart ==
    /\ Alive
    /\ pc[Checker] = "start"
    /\ IF config.RotationCheckInterval > 0
       THEN pc' = [pc EXCEPT ![Checker] = "select"] /\ UNCHANGED panicked
       ELSE panicked' = TRUE /\ UNCHANGED pc
    /\ UNCHANGED <<config, file, currentSize, mu, quitChan, fs, inodes, now,
                   stderr, comp, sweep, faults, nextId, leaked, atOpen,
                   sinceOpen, rotated, lastTick>>

\* case <-ticker.C, then l.mu.Lock() and the comparison with MaxSize. The
\* select takes a tick that is ready even when quitChan is closed as well.
MustRotateStrict == currentSize > config.MaxSize

MustRotate == currentSize >= config.MaxSize

CheckerLock ==
    /\ Alive
    /\ pc[Checker] = "select"
    /\ mu = NoOne
    /\ mu' = Checker
    /\ pc' = [pc EXCEPT ![Checker] = IF MustRotate THEN "rot_close" ELSE "unlock"]
    /\ lastTick' = nextId
    /\ UNCHANGED <<config, file, currentSize, quitChan, fs, inodes, now, stderr,
                   comp, sweep, faults, nextId, leaked, panicked, atOpen, sinceOpen,
                   rotated>>

\* A checker whose quit case goes round the loop again.
CheckerQuitContinues ==
    /\ Alive
    /\ pc[Checker] = "select"
    /\ quitChan = "closed"
    /\ UNCHANGED vars

\* A checker that returns on the closed channel wherever it stands, with the
\* mutex if it holds it.
CheckerQuitAnywhere ==
    /\ Alive
    /\ pc[Checker] # "stopped"
    /\ quitChan = "closed"
    /\ pc' = [pc EXCEPT ![Checker] = "stopped"]
    /\ UNCHANGED <<config, file, currentSize, mu, quitChan, fs, inodes, now,
                   stderr, comp, sweep, faults, nextId, leaked, panicked,
                   atOpen, sinceOpen, rotated, lastTick>>

\* case <-l.quitChan: return
CheckerQuit ==
    /\ Alive
    /\ pc[Checker] = "select"
    /\ quitChan = "closed"
    /\ pc' = [pc EXCEPT ![Checker] = "stopped"]
    /\ UNCHANGED <<config, file, currentSize, mu, quitChan, fs, inodes, now,
                   stderr, comp, sweep, faults, nextId, leaked, panicked,
                   atOpen, sinceOpen,
                   rotated, lastTick>>

\* A checker that goes back to its select without l.mu.Unlock().
CheckerNoUnlock ==
    /\ Alive
    /\ pc[Checker] = "unlock"
    /\ pc' = [pc EXCEPT ![Checker] = "select"]
    /\ UNCHANGED <<config, file, currentSize, mu, quitChan, fs, inodes, now,
                   stderr, comp, sweep, faults, nextId, leaked, panicked,
                   atOpen, sinceOpen, rotated, lastTick>>

\* l.mu.Unlock() of the checker, after the check or after rotate returned
CheckerUnlock ==
    /\ Alive
    /\ pc[Checker] = "unlock"
    /\ mu' = IF mu = Checker THEN NoOne ELSE mu
    /\ pc' = [pc EXCEPT ![Checker] = "select"]
    /\ UNCHANGED <<config, file, currentSize, quitChan, fs, inodes, now, stderr,
                   comp, sweep, faults, nextId, leaked, panicked, atOpen, sinceOpen,
                   rotated, lastTick>>

\* A rotate that reports the error of l.file.Close() and goes on to rename.
RotateCloseGoesOn ==
    /\ Alive
    /\ pc[Checker] = "rot_close"
    /\ \/ /\ file.open
          /\ file' = [file EXCEPT !.open = FALSE]
          /\ UNCHANGED <<stderr, faults>>
       \/ /\ file.open
          /\ MayFail
          /\ file' = [file EXCEPT !.open = FALSE]
          /\ faults' = faults + 1
          /\ stderr' = Reported("rotate")
       \/ /\ ~file.open
          /\ stderr' = Reported("rotate")
          /\ UNCHANGED <<file, faults>>
    /\ pc' = [pc EXCEPT ![Checker] = "rot_rename"]
    /\ UNCHANGED <<config, currentSize, mu, quitChan, fs, inodes, now, comp,
                   sweep, nextId, leaked, panicked, atOpen, sinceOpen,
                   rotated, lastTick>>

\* rotate, step 1: l.file.Close(). A File that was closed before returns
\* an error; one whose close fails is closed all the same.
RotateClose ==
    /\ Alive
    /\ pc[Checker] = "rot_close"
    /\ \/ /\ file.open
          /\ file' = [file EXCEPT !.open = FALSE]
          /\ pc' = [pc EXCEPT ![Checker] = "rot_rename"]
          /\ UNCHANGED <<stderr, faults>>
       \/ /\ file.open
          /\ MayFail
          /\ file' = [file EXCEPT !.open = FALSE]
          /\ faults' = faults + 1
          /\ stderr' = Reported("rotate")
          /\ pc' = [pc EXCEPT ![Checker] = "unlock"]
       \/ /\ ~file.open
          /\ stderr' = Reported("rotate")
          /\ pc' = [pc EXCEPT ![Checker] = "unlock"]
          /\ UNCHANGED <<file, faults>>
    /\ UNCHANGED <<config, currentSize, mu, quitChan, fs, inodes, now, comp,
                   sweep, nextId, leaked, panicked, atOpen, sinceOpen,
                   rotated, lastTick>>

\* The goroutine rotate starts for compressFile(backupName, backupName+".gz")
CompressTask(backupName) ==
    [src |-> backupName, dst |-> GzName(backupName), pc |-> "open",
     srcIno |-> 0, dstIno |-> 0, failed |-> FALSE]

\* rotate, step 2: os.Rename(FilePath, backupName) and, when it succeeded and
\* CompressOldLogs is set, the start of the compression goroutine.
RotateRename ==
    /\ Alive
    /\ pc[Checker] = "rot_rename"
    /\ LET backupName == BackupName(now) IN
       \/ /\ Exists(FilePath)
          /\ fs' = Renamed(FilePath, backupName)
          /\ comp' = IF config.CompressOldLogs
                     THEN Append(comp, CompressTask(backupName)) ELSE comp
          /\ rotated' = Append(rotated, [name |-> backupName, ino |-> fs[FilePath],
                                         had |-> atOpen, appended |-> sinceOpen,
                                         done |-> FALSE])
          /\ pc' = [pc EXCEPT ![Checker] = "rot_open"]
          /\ UNCHANGED <<stderr, faults>>
       \/ /\ MayFail \/ ~Exists(FilePath)
          /\ faults' = IF Exists(FilePath) THEN faults + 1 ELSE faults
          /\ stderr' = Reported("rotate")
          /\ pc' = [pc EXCEPT ![Checker] = "unlock"]
          /\ UNCHANGED <<fs, comp, rotated>>
    /\ UNCHANGED <<config, file, currentSize, mu, quitChan, inodes, now, sweep,
                   nextId, leaked, panicked, atOpen, sinceOpen, lastTick>>

\* The goroutine rotate starts for cleanupOldLogs
SweepTask == [pc |-> "glob", files |-> <<>>, cutoff |-> 0, aged |-> {}]

\* openFile's os.OpenFile(FilePath, O_WRONLY|O_APPEND|O_CREATE): the inodes
\* and the directory once the file is open
OpenedIno == IF Exists(FilePath) THEN fs[FilePath] ELSE NewIno
OpenedInodes ==
    IF Exists(FilePath) THEN inodes
    ELSE Append(inodes, [data |-> <<>>, mtime |-> now])
OpenedFs == IF Exists(FilePath) THEN fs ELSE fs @@ (FilePath :> NewIno)

\* An openFile that leaves l.file as it was.
OpenedFileStale == file

\* openFile's l.file = file and l.currentSize = info.Size()
OpenedFile == [ino |-> OpenedIno, open |-> TRUE]
SizeAtOpen == Size(OpenedInodes[OpenedIno].data)

\* An openFile that stores the file it opened before it has the file's size.
FailedOpenFileStored == OpenedFile

\* l.file once openFile has returned an error: nothing was stored.
FailedOpenFile == file

\* rotate, step 3: openFile and, when it succeeded, the start of the
\* cleanupOldLogs goroutine. openFile fails before the file is opened
\* (MkdirAll, OpenFile) or after it (Stat), and stores nothing when it fails.
RotateOpen ==
    /\ Alive
    /\ pc[Checker] = "rot_open"
    /\ \/ /\ file' = OpenedFile
          /\ inodes' = OpenedInodes
          /\ fs' = OpenedFs
          /\ currentSize' = SizeAtOpen
          /\ atOpen' = OpenedInodes[OpenedIno].data
          /\ sinceOpen' = <<>>
          /\ sweep' = Append(sweep, SweepTask)
          /\ rotated' = [rotated EXCEPT ![Len(rotated)].done = TRUE]
          /\ UNCHANGED <<stderr, faults, leaked>>
       \/ /\ MayFail
          /\ faults' = faults + 1
          /\ stderr' = Reported("rotate")
          /\ file' = FailedOpenFile
          /\ UNCHANGED <<inodes, fs, currentSize, atOpen, sinceOpen,
                         sweep, leaked, rotated>>
       \/ /\ MayFail
          /\ faults' = faults + 1
          /\ stderr' = Reported("rotate")
          /\ inodes' = OpenedInodes
          /\ fs' = OpenedFs
          /\ leaked' = leaked + 1
          /\ file' = FailedOpenFile
          /\ UNCHANGED <<currentSize, atOpen, sinceOpen, sweep, rotated>>
    /\ pc' = [pc EXCEPT ![Checker] = "unlock"]
    /\ UNCHANGED <<config, mu, quitChan, now, comp, nextId, panicked, lastTick>>

-----------------------------------------------------------------------------
(* Close *)

\* A Close that closes the channel only once and goes on in any case.
CloseSignalOnce(c) ==
    /\ Alive
    /\ pc[c] = "idle"
    /\ quitChan' = "closed"
    /\ pc' = [pc EXCEPT ![c] = "close_lock"]
    /\ UNCHANGED <<config, file, currentSize, mu, fs, inodes, now, stderr, comp,
                   sweep, faults, nextId, leaked, panicked, atOpen, sinceOpen,
                   rotated, lastTick>>

\* close(l.quitChan): closing a closed channel panics
CloseSignal(c) ==
    /\ Alive
    /\ pc[c] = "idle"
    /\ IF quitChan = "closed"
       THEN /\ panicked' = TRUE
            /\ UNCHANGED <<quitChan, pc>>
       ELSE /\ quitChan' = "closed"
            /\ pc' = [pc EXCEPT ![c] = "close_lock"]
            /\ UNCHANGED panicked
    /\ UNCHANGED <<config, file, currentSize, mu, fs, inodes, now, stderr, comp,
                   sweep, faults, nextId, leaked, atOpen, sinceOpen,
                   rotated, lastTick>>

\* l.mu.Lock() of Close
CloseLock(c) ==
    /\ Alive
    /\ pc[c] = "close_lock"
    /\ mu = NoOne
    /\ mu' = c
    /\ pc' = [pc EXCEPT ![c] = "close_body"]
    /\ UNCHANGED <<config, file, currentSize, quitChan, fs, inodes, now, stderr,
                   comp, sweep, faults, nextId, leaked, panicked, atOpen, sinceOpen,
                   rotated, lastTick>>

\* A Close that stops the checker and leaves the file open.
CloseBodyKeepsFile(c) ==
    /\ Alive
    /\ pc[c] = "close_body"
    /\ mu' = IF mu = c THEN NoOne ELSE mu
    /\ pc' = [pc EXCEPT ![c] = "idle"]
    /\ UNCHANGED <<config, file, currentSize, quitChan, fs, inodes, now, stderr,
                   comp, sweep, faults, nextId, leaked, panicked, atOpen,
                   sinceOpen, rotated, lastTick>>

\* l.file.Close() and the deferred Unlock (l.file is never nil once New
\* has returned a Logger)
CloseBody(c) ==
    /\ Alive
    /\ pc[c] = "close_body"
    /\ file' = [file EXCEPT !.open = FALSE]
    /\ mu' = IF mu = c THEN NoOne ELSE mu
    /\ pc' = [pc EXCEPT ![c] = "idle"]
    /\ UNCHANGED <<config, currentSize, quitChan, fs, inodes, now, stderr, comp,
                   sweep, faults, nextId, leaked, panicked, atOpen, sinceOpen,
                   rotated, lastTick>>

-----------------------------------------------------------------------------
(* gzip: a stream is a header, the deflated data and a trailer that holds   *)
(* the length of the data; a reader accepts only a complete stream.        *)

GzHeader == <<-1, 10>>
GzTrailer(data) == <<-2, Size(data)>>

Gzip(data) == <<GzHeader>> \o data \o <<GzTrailer(data)>>

\* What has reached the destination when the copy or the final flush fails.
GzipCut(data, k) == <<GzHeader>> \o SubSeq(data, 1, k)

Body(stream) == SubSeq(stream, 2, Len(stream) - 1)

GunzipOk(stream) ==
    /\ Len(stream) >= 2
    /\ stream[1] = GzHeader
    /\ \A k \in 2 .. Len(stream) - 1 : stream[k][1] >= 0
    /\ stream[Len(stream)] = GzTrailer(Body(stream))

Gunzip(stream) == Body(stream)

\* A write of a stream at offset 0 of a file that holds old.
Overlay(old, stream) ==
    IF Len(stream) >= Len(old) THEN stream
    ELSE stream \o SubSeq(old, Len(stream) + 1, Len(old))

-----------------------------------------------------------------------------
(* The compression goroutine: compressFile(src, dst), then os.Remove(src)  *)

CompressDone(i) == [comp EXCEPT ![i].pc = "done", ![i].srcIno = 0, ![i].dstIno = 0]
CompressFailed(i) == [CompressDone(i) EXCEPT ![i].failed = TRUE]

\* os.Open(src)
CompressOpen(i) ==
    /\ Alive
    /\ comp[i].pc = "open"
    /\ \/ /\ Exists(comp[i].src)
          /\ comp' = [comp EXCEPT ![i].pc = "create", ![i].srcIno = fs[comp[i].src]]
          /\ UNCHANGED <<stderr, faults>>
       \/ /\ MayFail \/ ~Exists(comp[i].src)
          /\ faults' = IF Exists(comp[i].src) THEN faults + 1 ELSE faults
          /\ stderr' = Reported("compress")
          /\ comp' = CompressFailed(i)
    /\ UNCHANGED <<config, file, currentSize, mu, quitChan, pc, fs, inodes, now,
                   sweep, nextId, leaked, panicked, atOpen, sinceOpen,
                   rotated, lastTick>>

\* os.Create(dst): the file is created, or truncated when it exists
CompressCreate(i) ==
    /\ Alive
    /\ comp[i].pc = "create"
    /\ LET dst == comp[i].dst IN
       \/ /\ Exists(dst)
          /\ inodes' = [inodes EXCEPT ![fs[dst]] = [data |-> <<>>, mtime |-> now]]
          /\ comp' = [comp EXCEPT ![i].pc = "copy", ![i].dstIno = fs[dst]]
          /\ UNCHANGED <<fs, stderr, faults>>
       \/ /\ ~Exists(dst)
          /\ inodes' = Append(inodes, [data |-> <<>>, mtime |-> now])
          /\ fs' = fs @@ (dst :> NewIno)
          /\ comp' = [comp EXCEPT ![i].pc = "copy", ![i].dstIno = NewIno]
          /\ UNCHANGED <<stderr, faults>>
       \/ /\ MayFail
          /\ faults' = faults + 1
          /\ stderr' = Reported("compress")
          /\ comp' = CompressFailed(i)
          /\ UNCHANGED <<fs, inodes>>
    /\ UNCHANGED <<config, file, currentSize, mu, quitChan, pc, now, sweep,
                   nextId, leaked, panicked, atOpen, sinceOpen,
                   rotated, lastTick>>

\* The destination once a stream was written to it from offset 0.
Written(i, stream) ==
    [inodes EXCEPT ![comp[i].dstIno] =
        [data |-> Overlay(@.data, stream), mtime |-> now]]

\* What compressFile returns when io.Copy succeeded: the deferred
\* gzWriter.Close() and dstFile.Close() run after the return value is set,
\* and their errors are dropped.
CopiedThen(flushed) == "remove"

\* io.Copy(gzWriter, srcFile) and the deferred gzWriter.Close(),
\* dstFile.Close() and srcFile.Close()
CompressCopy(i) ==
    /\ Alive
    /\ comp[i].pc = "copy"
    /\ LET data == inodes[comp[i].srcIno].data IN
       \/ /\ inodes' = Written(i, Gzip(data))
          /\ comp' = [comp EXCEPT ![i].pc = CopiedThen(TRUE)]
          /\ UNCHANGED <<stderr, faults>>
       \/ /\ MayFail
          /\ faults' = faults + 1
          /\ inodes' = Written(i, GzipCut(data, Len(data) \div 2))
          /\ stderr' = Reported("compress")
          /\ comp' = CompressFailed(i)
       \/ /\ MayFail
          /\ faults' = faults + 1
          /\ inodes' = Written(i, GzipCut(data, Len(data)))
          /\ comp' = [comp EXCEPT ![i].pc = CopiedThen(FALSE), ![i].failed = TRUE]
          /\ UNCHANGED stderr
    /\ UNCHANGED <<config, file, currentSize, mu, quitChan, pc, fs, now, sweep,
                   nextId, leaked, panicked, atOpen, sinceOpen,
                   rotated, lastTick>>

\* os.Remove(backupName), reached only when compressFile returned nil
CompressRemove(i) ==
    /\ Alive
    /\ comp[i].pc = "remove"
    /\ \/ /\ Exists(comp[i].src)
          /\ fs' = Removed(comp[i].src)
          /\ UNCHANGED <<stderr, faults>>
       \/ /\ MayFail \/ ~Exists(comp[i].src)
          /\ faults' = IF Exists(comp[i].src) THEN faults + 1 ELSE faults
          /\ stderr' = Reported("remove")
          /\ UNCHANGED fs
    /\ comp' = CompressDone(i)
    /\ UNCHANGED <<config, file, currentSize, mu, quitChan, pc, inodes, now,
                   sweep, nextId, leaked, panicked, atOpen, sinceOpen,
                   rotated, lastTick>>

-----------------------------------------------------------------------------
(* The retention goroutine: cleanupOldLogs *)

\* info.ModTime().Before(cutoffTime)
Expired(mtime, cutoff) == mtime < cutoff

\* History: the uncompressed archives, with their inodes, that are older than
\* a cutoff.
Aged(cutoff) ==
    {<<n, fs[n]>> : n \in {m \in DOMAIN fs :
                              IsBackup(m) /\ Expired(inodes[fs[m]].mtime, cutoff)}}

\* The loop goes on with the files left.
SweepOn(j, files) ==
    [sweep EXCEPT ![j].pc = IF files = <<>> THEN "done" ELSE "stat",
                  ![j].files = files]

\* filepath.Glob(FilePath + ".*.gz") and cutoffTime := now - MaxAge. The
\* pattern is well formed, so Glob returns no error.
SweepGlob(j) ==
    /\ Alive
    /\ sweep[j].pc = "glob"
    /\ sweep' = [SweepOn(j, Glob) EXCEPT ![j].cutoff = now - config.MaxAge,
                                         ![j].aged = Aged(now - config.MaxAge)]
    /\ UNCHANGED <<config, file, currentSize, mu, quitChan, pc, fs, inodes, now,
                   stderr, comp, faults, nextId, leaked, panicked, atOpen, sinceOpen,
                   rotated, lastTick>>

\* os.Stat(file) and the comparison of its ModTime with the cutoff
SweepStat(j) ==
    /\ Alive
    /\ sweep[j].pc = "stat"
    /\ LET f == Head(sweep[j].files) IN
       \/ /\ Exists(f)
          /\ sweep' = IF Expired(inodes[fs[f]].mtime, sweep[j].cutoff)
                      THEN [sweep EXCEPT ![j].pc = "remove"]
                      ELSE SweepOn(j, Tail(sweep[j].files))
          /\ UNCHANGED faults
       \/ /\ MayFail \/ ~Exists(f)
          /\ faults' = IF Exists(f) THEN faults + 1 ELSE faults
          /\ sweep' = SweepOn(j, Tail(sweep[j].files))
    /\ UNCHANGED <<config, file, currentSize, mu, quitChan, pc, fs, inodes, now,
                   stderr, comp, nextId, leaked, panicked, atOpen, sinceOpen,
                   rotated, lastTick>>

\* os.Remove(file)
SweepRemove(j) ==
    /\ Alive
    /\ sweep[j].pc = "remove"
    /\ LET f == Head(sweep[j].files) IN
       \/ /\ Exists(f)
          /\ fs' = Removed(f)
          /\ UNCHANGED <<stderr, faults>>
       \/ /\ MayFail \/ ~Exists(f)
          /\ faults' = IF Exists(f) THEN faults + 1 ELSE faults
          /\ stderr' = Reported("cleanup")
          /\ UNCHANGED fs
    /\ sweep' = SweepOn(j, Tail(sweep[j].files))
    /\ UNCHANGED <<config, file, currentSize, mu, quitChan, pc, inodes, now,
                   comp, nextId, leaked, panicked, atOpen, sinceOpen,
                   rotated, lastTick>>

-----------------------------------------------------------------------------
(* The clock *)

AdvanceClock ==
    /\ Alive
    /\ now < MaxTime
    /\ now' = now + 1
    /\ UNCHANGED <<config, file, currentSize, mu, quitChan, pc, fs, inodes,
                   stderr, comp, sweep, faults, nextId, leaked, panicked,
                   atOpen, sinceOpen,
                   rotated, lastTick>>

-----------------------------------------------------------------------------

\* The Logger alone: the callers, the rotation checker and rotate. The
\* detached tasks are started and never scheduled, and the clock stands.
NextLogger ==
    \/ nextId < MaxWrites /\ \E c \in Callers : WriteLock(c)
    \/ \E c \in Callers : WriteBody(c)
    \/ \E c \in Callers : CloseSignal(c)
    \/ \E c \in Callers : CloseLock(c)
    \/ \E c \in Callers : CloseBody(c)
    \/ CheckerLock
    \/ CheckerQuit
    \/ CheckerUnlock
    \/ RotateClose
    \/ RotateRename
    \/ RotateOpen

SpecLogger == Init /\ [][NextLogger]_vars

\* One caller that writes and does not call Close, the rotation checker,
\* rotate and the compression goroutines; the retention goroutines are
\* started and never scheduled, and the clock stands (every archive gets
\* the same name).
NextRotate ==
    \/ nextId < MaxRotateWrites /\ WriteLock("c1")
    \/ WriteBody("c1")
    \/ CheckerLock
    \/ CheckerUnlock
    \/ RotateClose
    \/ RotateRename
    \/ RotateOpen
    \/ \E i \in DOMAIN comp : CompressOpen(i)
    \/ \E i \in DOMAIN comp : CompressCreate(i)
    \/ \E i \in DOMAIN comp : CompressCopy(i)
    \/ \E i \in DOMAIN comp : CompressRemove(i)

SpecRotate == InitTasks /\ [][NextRotate]_vars

\* One caller that writes and does not call Close, the rotation checker,
\* rotate, every detached task and the clock.
NextTasks ==
    \/ nextId < MaxWrites /\ WriteLock("c1")
    \/ WriteBody("c1")
    \/ CheckerLock
    \/ CheckerUnlock
    \/ RotateClose
    \/ RotateRename
    \/ RotateOpen
    \/ \E i \in DOMAIN comp : CompressOpen(i)
    \/ \E i \in DOMAIN comp : CompressCreate(i)
    \/ \E i \in DOMAIN comp : CompressCopy(i)
    \/ \E i \in DOMAIN comp : CompressRemove(i)
    \/ \E j \in DOMAIN sweep : SweepGlob(j)
    \/ \E j \in DOMAIN sweep : SweepStat(j)
    \/ \E j \in DOMAIN sweep : SweepRemove(j)
    \/ AdvanceClock

SpecTasks == InitTasks /\ [][NextTasks]_vars

\* A Logger that is closed once: NextLogger without a second call of Close.
NextStop ==
    \/ nextId < MaxWrites /\ \E c \in Callers : WriteLock(c)
    \/ \E c \in Callers : WriteBody(c)
    \/ quitChan = "open" /\ \E c \in Callers : CloseSignal(c)
    \/ \E c \in Callers : CloseLock(c)
    \/ \E c \in Callers : CloseBody(c)
    \/ CheckerLock
    \/ CheckerQuit
    \/ CheckerUnlock
    \/ RotateClose
    \/ RotateRename
    \/ RotateOpen

\* The scheduling of the Go runtime: a goroutine that can run does run (the
\* holder of the mutex goes on to its Unlock), and a checker that comes back
\* to its select again and again with quitChan closed takes the quit case,
\* since between two ticks it is the only case that is ready.
FairStop ==
    /\ \A c \in Callers : WF_vars(WriteBody(c)) /\ WF_vars(CloseBody(c))
    /\ WF_vars(CheckerUnlock)
    /\ WF_vars(RotateClose) /\ WF_vars(RotateRename) /\ WF_vars(RotateOpen)
    /\ SF_vars(CheckerQuit)

SpecStop == Init /\ [][NextStop]_vars /\ FairStop

\* One caller that writes and calls Close once, the rotation checker, rotate,
\* every detached task and the clock.
NextOnce ==
    \/ nextId < MaxOnceWrites /\ WriteLock("c1")
    \/ WriteBody("c1")
    \/ quitChan = "open" /\ CloseSignal("c1")
    \/ CloseLock("c1")
    \/ CloseBody("c1")
    \/ CheckerLock
    \/ CheckerQuit
    \/ CheckerUnlock
    \/ RotateClose
    \/ RotateRename
    \/ RotateOpen
    \/ \E i \in DOMAIN comp : CompressOpen(i)
    \/ \E i \in DOMAIN comp : CompressCreate(i)
    \/ \E i \in DOMAIN comp : CompressCopy(i)
    \/ \E i \in DOMAIN comp : CompressRemove(i)
    \/ \E j \in DOMAIN sweep : SweepGlob(j)
    \/ \E j \in DOMAIN sweep : SweepStat(j)
    \/ \E j \in DOMAIN sweep : SweepRemove(j)
    \/ AdvanceClock

SpecOnce == InitTasks /\ [][NextOnce]_vars

\* A Logger made from any configuration: one caller that writes, the start
\* of the checker, its ticks and rotate.
NextAny ==
    \/ nextId < MaxWrites /\ WriteLock("c1")
    \/ WriteBody("c1")
    \/ CheckerStart
    \/ Len(rotated) < MaxRotations /\ CheckerLock
    \/ CheckerUnlock
    \/ RotateClose
    \/ RotateRename
    \/ RotateOpen

SpecAny == InitAny /\ [][NextAny]_vars

\* Everything at once.
Next ==
    \/ nextId < MaxWrites /\ \E c \in Callers : WriteLock(c)
    \/ \E c \in Callers : WriteBody(c)
    \/ \E c \in Callers : CloseSignal(c)
    \/ \E c \in Callers : CloseLock(c)
    \/ \E c \in Callers : CloseBody(c)
    \/ CheckerLock
    \/ CheckerQuit
    \/ CheckerUnlock
    \/ RotateClose
    \/ RotateRename
    \/ RotateOpen
    \/ \E i \in DOMAIN comp : CompressOpen(i)
    \/ \E i \in DOMAIN comp : CompressCreate(i)
    \/ \E i \in DOMAIN comp : CompressCopy(i)
    \/ \E i \in DOMAIN comp : CompressRemove(i)
    \/ \E j \in DOMAIN sweep : SweepGlob(j)
    \/ \E j \in DOMAIN sweep : SweepStat(j)
    \/ \E j \in DOMAIN sweep : SweepRemove(j)
    \/ AdvanceClock

Spec == Init /\ [][Next]_vars

-----------------------------------------------------------------------------
(* Properties of the Logger: the lock, the trigger, the handle, the counter *)

\* rotate is running: from before its close step until it has returned.
InRotate == pc[Checker] \in {"rot_close", "rot_rename", "rot_open"}

\* C1: every step of rotate runs while the rotation checker holds the mutex,
\* and while rotate runs no caller is inside write (or Close): no append
\* happens between rotate's close step and its return.
C1_RotateExcludesWrite ==
    InRotate => /\ mu = Checker
                /\ \A c \in Callers : pc[c] \notin {"write", "close_body"}

\* rotate is at its reopen step after lines were written through the handle
\* it closed, with a caller waiting for the lock.
C1_Witness ==
    /\ pc[Checker] = "rot_open"
    /\ sinceOpen # <<>>
    /\ \E c \in Callers : pc[c] = "close_lock"

\* The checker takes a tick: it locks and compares the counter with MaxSize.
Tick == pc[Checker] = "select" /\ pc'[Checker] \in {"rot_close", "unlock"}

\* rotate is called.
RotateCalled == pc[Checker] # "rot_close" /\ pc'[Checker] = "rot_close"

\* C3: rotate is called in a step if and only if the step is a tick at which
\* the counter is at least MaxSize; a tick below MaxSize goes on to the
\* unlock, and no step of write calls rotate.
C3_RotateIffTickAtMaxSize ==
    [][RotateCalled <=> (Tick /\ currentSize >= config.MaxSize)]_vars

\* rotate was called at a tick taken before any write, with the counter
\* exactly at MaxSize.
C3_Witness ==
    /\ pc[Checker] = "rot_close"
    /\ currentSize = config.MaxSize
    /\ lastTick = 0

\* The file handles open for writing that the process holds for the Logger.
OpenHandles == (IF file.open THEN 1 ELSE 0) + leaked

\* From construction until Close is called, with the mutex free.
AtRest == quitChan = "open" /\ mu = NoOne

\* C4 as stated: whenever the mutex is free before Close, the Logger has one
\* open handle, failed rotations included.
C4_AlwaysOneHandle == AtRest => (file.open /\ OpenHandles = 1)

\* C4: whenever the mutex is free before Close, the Logger's handle is open
\* exactly when no rotation has failed (after a failed rotation it has none),
\* and never more than one handle is open.
C4_OneHandleUntilRotateFails ==
    AtRest => /\ file.open <=> "rotate" \notin stderr
              /\ OpenHandles <= 1

\* A rotation failed at openFile's Stat and returned: the Logger has no open
\* handle, and the file openFile opened was never closed.
C4_Witness ==
    /\ AtRest
    /\ "rotate" \in stderr
    /\ ~file.open
    /\ leaked = 1

\* C5: whenever the mutex is free, the counter is the size the file had when
\* the handle was opened plus the bytes appended through the handle since,
\* the bytes of failed appends included.
C5_CounterIsSizePlusAppended ==
    mu = NoOne => currentSize = Size(atOpen) + Size(sinceOpen)

\* The bytes a step appends to the file of the Logger's handle.
Grown == Size(inodes'[file.ino].data) - Size(inodes[file.ino].data)

\* C6: a step in which a write call ends returns to the caller without a
\* panic and with the mutex released, and unless the whole line reached the
\* file the error is on the error stream and the counter is as it was.
C6_WriteReturns ==
    [][\A c \in Callers :
         (pc[c] = "write" /\ pc'[c] # "write") =>
             /\ pc'[c] = "idle"
             /\ ~panicked'
             /\ mu' # c
             /\ \/ \E level \in LevelInputs, msg \in MessageInputs :
                      Grown = Len(LogLine(level, msg))
                \/ /\ "write" \in stderr'
                   /\ currentSize' = currentSize]_vars

\* A write made after Close has returned: it came back with the error
\* reported, no I/O fault involved.
C6_Witness ==
    /\ quitChan = "closed"
    /\ ~file.open
    /\ "write" \in stderr
    /\ faults = 0
    /\ mu = NoOne
    /\ \A c \in Callers : pc[c] = "idle"

-----------------------------------------------------------------------------
(* Properties of a completed rotation *)

\* The latest rotation that renamed the file, and whether it has completed.
LastRotation == rotated[Len(rotated)]
RotationCompleted == rotated # <<>> /\ LastRotation.done

\* What the file at FilePath holds.
LiveData == inodes[fs[FilePath]].data

\* The file at FilePath held nothing when New opened it.
FreshAtNew == inodes[1].data = <<>> \/ inodes[1].data[1][1] # 0

\* Line id of a write call, whole.
Line(id) == <<id, Len(LogLine(LevelInfo, "m"))>>

\* Five writes were made without an I/O fault to a file that was fresh, the
\* checker took its last tick after the fourth, and the fifth has returned.
FiveWritesOneTick ==
    /\ FreshAtNew
    /\ faults = 0
    /\ nextId = 5
    /\ lastTick = 4
    /\ pc["c1"] = "idle"

\* C2 as stated: once a rotation has completed, the archived file holds
\* exactly the bytes appended through the handle before the rotation, and the
\* live file exactly what was written after it.
C2_ArchiveIsAppendedOnly ==
    RotationCompleted =>
        /\ inodes[LastRotation.ino].data = LastRotation.appended
        /\ Exists(FilePath) /\ LiveData = sinceOpen

\* C2: once a rotation has completed, the archived file holds what the file
\* held when its handle was opened followed by the bytes appended through
\* the handle, in write order; the archive name is that file's name until a
\* compression task removes it; the live file is the Logger's and holds
\* exactly what was written after the rotation. After five writes to a fresh
\* file with the last tick after the fourth there was one rotation, the
\* archived file holds lines 1 to 4 and the live file holds line 5.
C2_ArchiveIsFileAtRotation ==
    /\ RotationCompleted =>
          /\ inodes[LastRotation.ino].data =
                 LastRotation.had \o LastRotation.appended
          /\ Exists(LastRotation.name) => fs[LastRotation.name] = LastRotation.ino
          /\ ~config.CompressOldLogs => Exists(LastRotation.name)
          /\ Exists(FilePath) /\ fs[FilePath] = file.ino
          /\ fs[FilePath] # LastRotation.ino
          /\ atOpen = <<>> /\ LiveData = sinceOpen
    /\ FiveWritesOneTick =>
          /\ Len(rotated) = 1 /\ RotationCompleted
          /\ inodes[LastRotation.ino].data = <<Line(1), Line(2), Line(3), Line(4)>>
          /\ LiveData = <<Line(5)>>

\* The five writes with one tick after the fourth were made, and the one
\* rotation's archive is still in the directory.
C2_Witness ==
    /\ FiveWritesOneTick
    /\ RotationCompleted
    /\ Exists(LastRotation.name)
    /\ Size(LiveData) = Len(LogLine(LevelInfo, "m"))

-----------------------------------------------------------------------------
(* Properties of the detached tasks. With CompressOldLogs set, compression *)
(* task i was started by the rotation recorded as rotated[i].              *)

\* Compression task i ends in this step.
CompressEnds(i) == comp[i].pc # "done" /\ comp'[i].pc = "done"

\* What the rotation of compression task i archived.
Archived(i) == rotated[i].had \o rotated[i].appended

\* C7: when the compression task of a completed rotation ends with no
\* compression or removal error on the error stream, the archive is gone, its
\* .gz sibling exists, and the sibling decompresses to what was archived.
C7_CompressedRoundTrip ==
    [][\A i \in DOMAIN comp :
         ( /\ CompressEnds(i)
           /\ rotated[i].done
           /\ "compress" \notin stderr'
           /\ "remove" \notin stderr' ) =>
             /\ comp[i].src \notin DOMAIN fs'
             /\ comp[i].dst \in DOMAIN fs'
             /\ GunzipOk(inodes'[fs'[comp[i].dst]].data)
             /\ Gunzip(inodes'[fs'[comp[i].dst]].data) = Archived(i)]_vars

\* C8: when a compression task in which a step failed ends, the error is on
\* the error stream and the archive it was given is still there.
C8_ArchiveKeptOnFailure ==
    [][\A i \in DOMAIN comp :
         (CompressEnds(i) /\ comp'[i].failed /\ Exists(comp[i].src)) =>
             /\ "compress" \in stderr'
             /\ comp[i].src \in DOMAIN fs']_vars

\* C9: a file a sweep removes matches FilePath.*.gz and is, when removed,
\* older than the sweep's cutoff.
C9_SweepRemovesOnlyExpiredGz ==
    [][\A j \in DOMAIN sweep :
         (sweep[j].pc = "remove" /\ sweep'[j].pc # "remove" /\ fs' # fs) =>
             LET f == Head(sweep[j].files) IN
             /\ IsGz(f)
             /\ Expired(inodes[fs[f]].mtime, sweep[j].cutoff)]_vars

\* C10: with CompressOldLogs unset, no archive that was older than the cutoff
\* of a sweep when the sweep started is left once the sweep has ended.
C10_SweepRemovesAgedArchives ==
    ~config.CompressOldLogs =>
        \A j \in DOMAIN sweep :
            sweep[j].pc = "done" =>
                \A a \in sweep[j].aged : ~(Exists(a[1]) /\ fs[a[1]] = a[2])

-----------------------------------------------------------------------------
(* Properties of failure, of Close and of the steps of rotate *)

\* A rotation renamed the file, failed to open a replacement and returned.
ReopenFailed ==
    /\ rotated # <<>>
    /\ ~LastRotation.done
    /\ pc[Checker] # "rot_open"

\* A write call ends in this step.
WriteEnds == \E c \in Callers : pc[c] = "write" /\ pc'[c] # "write"

\* C11: once a rotation has renamed the file and failed to reopen it, the
\* Logger stays so: it has no open handle in any later state, a write that
\* ends appends nothing, reports its error and leaves the counter as it was,
\* and every tick calls rotate, which fails at its close step with nothing
\* renamed, created or opened.
C11_FailedReopenIsPermanent ==
    [][(ReopenFailed' => ~file'.open) /\
       (ReopenFailed =>
          /\ ReopenFailed'
          /\ ~file.open /\ ~file'.open
          /\ currentSize' = currentSize
          /\ fs' = fs /\ inodes' = inodes /\ leaked' = leaked
          /\ WriteEnds => "write" \in stderr'
          /\ Tick => RotateCalled
          /\ pc[Checker] = "rot_close" =>
                 pc'[Checker] \in {"rot_close", "unlock"})]_vars

\* After the failed reopen a write has failed on the closed handle and a
\* later tick's rotation attempt has failed too.
C11_Witness ==
    /\ ReopenFailed
    /\ quitChan = "open"
    /\ "write" \in stderr
    /\ pc[Checker] = "unlock"
    /\ lastTick > 0

\* C12 as stated: once the quit channel is closed, the checker takes no tick
\* and calls rotate no more.
C12_NoTickAfterSignal ==
    [][quitChan = "closed" => (~Tick /\ ~RotateCalled)]_vars

\* C12: the checker returns only on the closed quit channel and without the
\* mutex, and once it has returned it takes no tick, calls rotate no more
\* and never holds the mutex.
C12_NoTickAfterQuitTaken ==
    [][/\ pc'[Checker] = "stopped" => (quitChan = "closed" /\ mu' # Checker)
       /\ pc[Checker] = "stopped" =>
              /\ ~Tick /\ ~RotateCalled
              /\ lastTick' = lastTick
              /\ rotated' = rotated]_vars

\* The checker has returned while Close, which signalled it, still waits
\* for the mutex.
C12_Witness ==
    /\ pc[Checker] = "stopped"
    /\ \E c \in Callers : pc[c] = "close_lock"

\* C13: the checker is running when New returns; once Close has closed the
\* quit channel the checker eventually returns; and once it has returned it
\* never runs again.
C13_SchedulerStops ==
    /\ pc[Checker] = "select"
    /\ (quitChan = "closed") ~> (pc[Checker] = "stopped")
    /\ [][pc[Checker] = "stopped" => pc'[Checker] = "stopped"]_vars

\* Close has returned and the checker has returned after it served a tick.
C13_Witness ==
    /\ pc[Checker] = "stopped"
    /\ quitChan = "closed"
    /\ ~file.open
    /\ lastTick >= 0
    /\ \A c \in Callers : pc[c] = "idle"

\* C14: a call of Close goes on past its first statement only when it finds
\* the quit channel open: it closes the channel with the handle and the
\* mutex untouched, then takes the mutex, then closes the handle and
\* releases the mutex. A call that finds the channel closed panics there,
\* before the mutex, and changes neither the handle nor the counter.
C14_CloseIsSingleUse ==
    [][/\ \A c \in Callers :
            /\ (pc[c] = "idle" /\ pc'[c] = "close_lock") =>
                   /\ quitChan = "open" /\ quitChan' = "closed"
                   /\ file' = file /\ mu' = mu
            /\ (pc[c] = "close_lock" /\ pc'[c] # "close_lock") =>
                   (pc'[c] = "close_body" /\ mu = NoOne /\ mu' = c)
            /\ (pc[c] = "close_body" /\ pc'[c] # "close_body") =>
                   (pc'[c] = "idle" /\ ~file'.open /\ mu' = NoOne)
       /\ quitChan' # quitChan =>
              \E c \in Callers : pc[c] = "idle" /\ pc'[c] = "close_lock"
       /\ (panicked' /\ ~panicked) =>
              /\ quitChan = "closed"
              /\ file' = file /\ currentSize' = currentSize
              /\ mu' = mu /\ pc' = pc]_vars

\* A second Close has panicked while the first still waits for the mutex,
\* the handle open.
C14_Witness ==
    /\ panicked
    /\ file.open
    /\ \E c \in Callers : pc[c] = "close_lock"

\* The line of a record whose timestamp is rendered in the effective
\* Config.TimestampFormat.
ConfiguredLine(level, msg) ==
    IF config.JSONFormat
    THEN JSONLine(FormatTime(config.TimestampFormat, now), level, msg)
    ELSE PlainLine(FormatTime(config.TimestampFormat, now), level, msg)

\* C15: the line a write builds is the record with its timestamp rendered in
\* the effective TimestampFormat, so a write that ends with no error ever
\* reported has appended exactly the bytes of that line.
C15_TimestampInConfiguredFormat ==
    [][\A c \in Callers :
         (pc[c] = "write" /\ pc'[c] = "idle" /\ "write" \notin stderr') =>
             \E level \in LevelInputs, msg \in MessageInputs :
                 /\ LogLine(level, msg) = ConfiguredLine(level, msg)
                 /\ Grown = Len(ConfiguredLine(level, msg))]_vars

\* What a step does to the Logger's files and tasks.
Closes == file.open /\ ~file'.open
Renames == Exists(FilePath) /\ FilePath \notin DOMAIN fs'
Opens == file' # file /\ file'.open
SpawnsCompress == Len(comp') > Len(comp)
SpawnsSweep == Len(sweep') > Len(sweep)
RotateFails == "rotate" \notin stderr /\ "rotate" \in stderr'

\* C16: rotate goes from its close to its rename only when the close
\* succeeded, from its rename to its reopen only when the rename succeeded,
\* and returns after the reopen; the file is renamed only with the handle
\* closed; a compression task is started exactly by a rename that succeeded
\* with CompressOldLogs set; a handle is stored only by the reopen, after the
\* rename, with the counter set to the size of the file opened; a sweep is
\* started exactly when a handle was stored; and a step that fails returns
\* from rotate without renaming, starting a task or storing a handle.
C16_RotateStepsInOrder ==
    [][/\ (pc[Checker] = "rot_close" /\ pc'[Checker] # "rot_close") =>
              /\ pc'[Checker] \in {"rot_rename", "unlock"}
              /\ pc'[Checker] = "rot_rename" <=> (Closes /\ ~RotateFails)
              /\ ~Renames /\ ~Opens
       /\ (pc[Checker] = "rot_rename" /\ pc'[Checker] # "rot_rename") =>
              /\ pc'[Checker] \in {"rot_open", "unlock"}
              /\ pc'[Checker] = "rot_open" <=> (Renames /\ ~RotateFails)
              /\ ~Opens
       /\ (pc[Checker] = "rot_open" /\ pc'[Checker] # "rot_open") =>
              /\ pc'[Checker] = "unlock"
              /\ Opens <=> ~RotateFails
       /\ Renames => (pc[Checker] = "rot_rename" /\ ~file.open
                        /\ "rotate" \notin stderr')
       /\ SpawnsCompress <=> (Renames /\ config.CompressOldLogs)
       /\ Opens => /\ pc[Checker] = "rot_open"
                   /\ ~Exists(FilePath) /\ ~file.open
                   /\ fs'[FilePath] = file'.ino
                   /\ currentSize' = Size(inodes'[file'.ino].data)
                   /\ "rotate" \notin stderr'
       /\ SpawnsSweep <=> Opens
       /\ RotateFails => /\ pc'[Checker] = "unlock"
                         /\ ~Renames /\ ~SpawnsCompress
                         /\ ~Opens /\ ~SpawnsSweep]_vars

\* A rotation has failed at its close or its rename and returned: the handle
\* is closed, the file is still at its path and no task was started.
C16_Witness ==
    /\ pc[Checker] = "unlock"
    /\ "rotate" \in stderr
    /\ ~file.open
    /\ Exists(FilePath) /\ fs[FilePath] = file.ino
    /\ sinceOpen # <<>>
    /\ comp = <<>> /\ sweep = <<>> /\ rotated = <<>>

\* The one call of Close that went past close(l.quitChan) has returned.
CloseReturned ==
    /\ quitChan = "closed"
    /\ \A c \in Callers : pc[c] \notin {"close_lock", "close_body"}

\* C18: once Close has returned the handle is closed and stays closed, no
\* file is renamed, created or opened and none is stored in the Logger; a
\* tick that still calls rotate returns from its close step with the error
\* reported; and a write that ends has appended nothing, leaves the counter
\* as it was and has reported its error.
C18_NothingAfterClose ==
    [][(CloseReturned' => ~file'.open) /\
       (CloseReturned =>
          /\ CloseReturned'
          /\ file' = file /\ leaked' = leaked
          /\ fs' = fs /\ inodes' = inodes /\ rotated' = rotated
          /\ currentSize' = currentSize
          /\ (pc[Checker] = "rot_close" /\ pc'[Checker] # "rot_close") =>
                 (pc'[Checker] = "unlock" /\ "rotate" \in stderr')
          /\ WriteEnds => "write" \in stderr')]_vars

\* After Close returned, with no I/O fault, a write has failed and a tick
\* with the counter at MaxSize or more has called rotate, which gave up.
C18_Witness ==
    /\ CloseReturned
    /\ faults = 0
    /\ "write" \in stderr
    /\ "rotate" \in stderr
    /\ pc[Checker] = "unlock"

-----------------------------------------------------------------------------
(* The mutex *)

\* The steps the holder of the mutex has left before its Unlock.
StepsToUnlock ==
    IF mu = Checker
    THEN CASE pc[Checker] = "rot_close" -> 4
           [] pc[Checker] = "rot_rename" -> 3
           [] pc[Checker] = "rot_open" -> 2
           [] pc[Checker] = "unlock" -> 1
           [] OTHER -> 0
    ELSE IF mu \in Callers /\ pc[mu] \in {"write", "close_body"} THEN 1
    ELSE 0

\* The next step of the holder of the mutex.
HolderStep ==
    IF mu = Checker
    THEN CheckerUnlock \/ RotateClose \/ RotateRename \/ RotateOpen
    ELSE \E c \in Callers : mu = c /\ (WriteBody(c) \/ CloseBody(c))

\* A compression or sweep task takes a step.
TaskSteps ==
    \/ \E i \in DOMAIN comp : comp'[i].pc # comp[i].pc
    \/ \E j \in DOMAIN sweep : sweep'[j].pc # sweep[j].pc

\* What a step may do to the mutex.
MutexStep ==
    /\ (mu # NoOne /\ pc'[mu] # pc[mu]) =>
           IF StepsToUnlock = 1 THEN mu' = NoOne
           ELSE mu' = mu /\ StepsToUnlock' < StepsToUnlock
    /\ (mu # NoOne /\ mu' # mu) => (mu' = NoOne /\ pc'[mu] # pc[mu])
    /\ (mu = NoOne /\ mu' # NoOne) => pc'[mu'] # pc[mu']
    /\ TaskSteps => (mu' = mu /\ pc' = pc)

\* C19: the holder of the mutex is write, Close or the tick check, always
\* has a step it can take, and every step it takes brings it nearer to its
\* Unlock, which its last step is, whether or not rotate was called or
\* failed; nobody else releases the mutex, it is taken only when free, so a
\* caller that waits for it can take it once the holder's steps are done;
\* and no step of a compression or sweep task changes the mutex.
C19_LockAlwaysReleased ==
    /\ [](mu # NoOne => (StepsToUnlock > 0 /\ ENABLED HolderStep))
    /\ [](mu = NoOne =>
            \A c \in Callers : pc[c] = "close_lock" => ENABLED CloseLock(c))
    /\ [][MutexStep]_vars

\* The checker still holds the mutex after rotate while Close waits for it
\* and a compression task and a sweep are on their way.
C19_Witness ==
    /\ mu = Checker
    /\ pc[Checker] = "unlock"
    /\ pc["c1"] = "close_lock"
    /\ \E i \in DOMAIN comp : comp[i].pc \notin {"open", "done"}
    /\ \E j \in DOMAIN sweep : sweep[j].pc # "glob"

-----------------------------------------------------------------------------
(* Lines and where they are kept *)

Range(seq) == {seq[k] : k \in DOMAIN seq}

\* A chunk that is a whole line.
IsLine(chunk) ==
    \E level \in LevelInputs, msg \in MessageInputs :
        chunk[1] > 0 /\ chunk[2] = Len(LogLine(level, msg))

\* The lines whose append succeeded.
WrittenLines ==
    {ch \in Range(sinceOpen) \cup
            UNION {Range(rotated[k].appended) : k \in DOMAIN rotated} :
        IsLine(ch)}

\* The file of this name keeps the line: the live file or an archive holds
\* it, a compressed archive is complete and decompresses to data with it.
Keeps(name, line) ==
    LET data == inodes[fs[name]].data IN
    IF IsGz(name) THEN GunzipOk(data) /\ line \in Range(Gunzip(data))
    ELSE line \in Range(data)

\* C17: as long as no I/O operation has failed, every line whose append
\* succeeded is kept by the live file, an uncompressed archive or a complete
\* compressed archive (no sweep runs here).
C17_NoLineLost ==
    faults = 0 => \A line \in WrittenLines : \E name \in DOMAIN fs : Keeps(name, line)

-----------------------------------------------------------------------------
(* The effective configuration *)

\* C20: whatever Config New was given, the configuration of the Logger it
\* returned has a positive MaxSize, MaxAge and RotationCheckInterval, and no
\* step changes it.
C20_EffectiveConfigPositive ==
    /\ [](/\ config.MaxSize > 0
          /\ config.MaxAge > 0
          /\ config.RotationCheckInterval > 0)
    /\ [][config' = config]_vars

====
